---- MODULE Spec2Model ----
(***************************************************************************)
(* A model of src/src/lib.rs of the `resize` crate: the per-axis           *)
(* coefficient calculator (Resizer::calc_coeffs with its recycling cache),  *)
(* the constructor Resizer::new and the two-pass resampling of              *)
(* Resizer::resize_internal (sample_rows, then sample_cols).                *)
(*                                                                         *)
(* f32 values are modelled bit-exactly for the finite, normal values the    *)
(* code produces at the modelled sizes: a value is <<m, e>>, standing for   *)
(* m * 2^e, with 2^23 <= |m| < 2^24, or <<0, 0>> for zero (the sign of a    *)
(* zero is not kept).  Every operation rounds to nearest, ties to even, as  *)
(* IEEE 754 binary32 does.  usize values are residues modulo 2^64, written  *)
(* by their two's complement representative: usize::MAX is -1.              *)
(*                                                                         *)
(* Intermediate values are handed on as operator arguments rather than     *)
(* bound by LET, so that each is written, and evaluated, once.              *)
(***************************************************************************)
EXTENDS Integers, Sequences, FiniteSets, TLC

(***************************************************************************)
(* IEEE 754 binary32 arithmetic (the f32 of lib.rs).                       *)
(***************************************************************************)
\* The number of binary digits of n, 1 <= n < 2^30: a binary search.
BitLen(n) ==
    IF n < 32768
    THEN IF n < 256
         THEN IF n < 16
              THEN IF n < 4
                   THEN IF n < 2
                        THEN 1
                        ELSE 2
                   ELSE IF n < 8
                        THEN 3
                        ELSE 4
              ELSE IF n < 64
                   THEN IF n < 32
                        THEN 5
                        ELSE 6
                   ELSE IF n < 128
                        THEN 7
                        ELSE 8
         ELSE IF n < 4096
              THEN IF n < 1024
                   THEN IF n < 512
                        THEN 9
                        ELSE 10
                   ELSE IF n < 2048
                        THEN 11
                        ELSE 12
              ELSE IF n < 16384
                   THEN IF n < 8192
                        THEN 13
                        ELSE 14
                   ELSE 15
    ELSE IF n < 8388608
         THEN IF n < 524288
              THEN IF n < 131072
                   THEN IF n < 65536
                        THEN 16
                        ELSE 17
                   ELSE IF n < 262144
                        THEN 18
                        ELSE 19
              ELSE IF n < 2097152
                   THEN IF n < 1048576
                        THEN 20
                        ELSE 21
                   ELSE IF n < 4194304
                        THEN 22
                        ELSE 23
         ELSE IF n < 134217728
              THEN IF n < 33554432
                   THEN IF n < 16777216
                        THEN 24
                        ELSE 25
                   ELSE IF n < 67108864
                        THEN 26
                        ELSE 27
              ELSE IF n < 536870912
                   THEN IF n < 268435456
                        THEN 28
                        ELSE 29
                   ELSE 30

\* A significand that rounding carried up to 2^24 is renormalised.
Carry(q, e) == IF q = 16777216 THEN <<8388608, e + 1>> ELSE <<q, e>>

\* q with remainder r against the half h of the last place: ties to even.
RoundPick(q, r, h, e) ==
    Carry(IF r > h \/ (r = h /\ q % 2 = 1) THEN q + 1 ELSE q, e)

RoundShift(n, e, k) == RoundPick(n \div 2^k, n % 2^k, 2^(k - 1), e + k)

RoundAt(n, e, len) ==
    IF len <= 24 THEN <<n * 2^(24 - len), e - (24 - len)>>
    ELSE RoundShift(n, e, len - 24)

\* n * 2^e (n >= 0) rounded to 24 significant bits.
RoundNE(n, e) == IF n = 0 THEN <<0, 0>> ELSE RoundAt(n, e, BitLen(n))

WithSign(negative, a) == IF negative THEN <<-a[1], a[2]>> ELSE a

F32Neg(a) == <<-a[1], a[2]>>

F32Abs(a) == IF a[1] < 0 THEN <<-a[1], a[2]>> ELSE a

\* n * 2^e for an integer n of either sign, rounded.
F32Round(n, e) == WithSign(n < 0, RoundNE(IF n < 0 THEN -n ELSE n, e))

\* `n as f32` for an integer n, |n| < 2^30.
F32FromInt(n) == F32Round(n, 0)

\* v with its lowest bit set when sticky bits were shifted out below it.
Jam(v, sticky) == IF sticky /\ v % 2 = 0 THEN v + 1 ELSE v

\* m / sh truncated towards zero, jammed.
JamShift(m, sh) ==
    IF m < 0 THEN -Jam((-m) \div sh, (-m) % sh # 0) ELSE Jam(m \div sh, m % sh # 0)

\* hi + lo for nonzero hi, lo with exponents d apart, hi's the larger: lo is
\* too small to matter, or the sum is exact in 28 bits, or lo is shifted
\* under three guard bits of hi.
AddOrdered(hi, lo, d) ==
    IF d > 26 THEN hi
    ELSE F32Round(IF d <= 3 THEN hi[1] * 2^d + lo[1]
                  ELSE hi[1] * 8 + JamShift(lo[1], 2^(d - 3)),
                  IF d <= 3 THEN lo[2] ELSE hi[2] - 3)

F32Add(a, b) ==
    IF a[1] = 0 THEN b
    ELSE IF b[1] = 0 THEN a
    ELSE AddOrdered(IF a[2] >= b[2] THEN a ELSE b,
                    IF a[2] >= b[2] THEN b ELSE a,
                    IF a[2] >= b[2] THEN a[2] - b[2] ELSE b[2] - a[2])

F32Sub(a, b) == F32Add(a, <<-b[1], b[2]>>)

\* The 48-bit product as high * 2^24 + low, cut to 28 bits and jammed.
MulJoin(high, low, e) ==
    RoundNE(Jam(high * 16 + (low \div 1048576), low % 1048576 # 0), e + 20)

MulCarry(hh, mid, low, e) ==
    MulJoin(hh + (mid \div 4096) + (low \div 16777216), low % 16777216, e)

MulMid(hh, mid, ll, e) == MulCarry(hh, mid, (mid % 4096) * 4096 + ll, e)

\* The product of two significands from their 12-bit halves.
MulLimbs(ah, al, bh, bl, e) == MulMid(ah * bh, ah * bl + al * bh, al * bl, e)

MulAbs(ma, mb, e) ==
    MulLimbs(ma \div 4096, ma % 4096, mb \div 4096, mb % 4096, e)

F32Mul(a, b) ==
    IF a[1] = 0 \/ b[1] = 0 THEN <<0, 0>>
    ELSE WithSign((a[1] < 0) # (b[1] < 0),
                  MulAbs(IF a[1] < 0 THEN -a[1] ELSE a[1],
                         IF b[1] < 0 THEN -b[1] ELSE b[1], a[2] + b[2]))

\* Long division, seven quotient bits a step; the remainder is the sticky bit.
RECURSIVE DivDigits(_, _, _, _, _)
DivDigits(r, mb, Q, steps, e) ==
    IF steps = 0 THEN RoundNE(Jam(Q, r # 0), e)
    ELSE DivDigits((r * 128) % mb, mb, Q * 128 + ((r * 128) \div mb), steps - 1, e)

DivAbs(ma, mb, e) == DivDigits(ma % mb, mb, ma \div mb, 4, e - 28)

\* a / b for b # 0.
F32Div(a, b) ==
    IF a[1] = 0 THEN <<0, 0>>
    ELSE WithSign((a[1] < 0) # (b[1] < 0),
                  DivAbs(IF a[1] < 0 THEN -a[1] ELSE a[1],
                         IF b[1] < 0 THEN -b[1] ELSE b[1], a[2] - b[2]))

F32Lt(a, b) == F32Sub(a, b)[1] < 0

\* f32::max
F32Max(a, b) == IF F32Lt(a, b) THEN b ELSE a

\* floor(a) as an integer (the values floored here are below 2^30).
F32Floor(a) ==
    IF a[2] >= 0 THEN a[1] * 2^a[2]
    ELSE IF a[2] < -30 THEN (IF a[1] < 0 THEN -1 ELSE 0)
    ELSE a[1] \div 2^(-a[2])

F32Ceil(a) ==
    IF a[2] >= 0 THEN a[1] * 2^a[2]
    ELSE IF a[2] < -30 THEN (IF a[1] > 0 THEN 1 ELSE 0)
    ELSE -((-a[1]) \div 2^(-a[2]))

F32Zero == <<0, 0>>
F32Half == <<8388608, -24>>
F32One  == <<8388608, -23>>

\* `u as f32` for a usize u; a negative representative is a value just below
\* 2^64, which rounds to 2^64.
UsizeToF32(u) == IF u >= 0 THEN F32FromInt(u) ELSE <<8388608, 41>>

\* a <= b as usize values.
UsizeLe(a, b) == IF (a < 0) = (b < 0) THEN a <= b ELSE b < 0

(***************************************************************************)
(* The kernels.                                                            *)
(***************************************************************************)
point_kernel(x) == F32One

triangle_kernel(x) == F32Max(F32Sub(F32One, F32Abs(x)), F32Zero)

\* a.powi(n) for n = 2, 3: repeated multiplication, rounded at each step.
powi(a, n) == IF n = 2 THEN F32Mul(a, a) ELSE F32Mul(F32Mul(a, a), a)

\* The two polynomials of cubic_bc in a = |x|.
CubicNear(b, c, a) ==
    F32Add(F32Add(
        F32Mul(F32Sub(F32Sub(F32FromInt(12), F32Mul(F32FromInt(9), b)),
                      F32Mul(F32FromInt(6), c)), powi(a, 3)),
        F32Mul(F32Add(F32Add(F32FromInt(-18), F32Mul(F32FromInt(12), b)),
                      F32Mul(F32FromInt(6), c)), powi(a, 2))),
        F32Sub(F32FromInt(6), F32Mul(F32FromInt(2), b)))

CubicFar(b, c, a) ==
    F32Add(F32Add(F32Add(
        F32Mul(F32Sub(F32Neg(b), F32Mul(F32FromInt(6), c)), powi(a, 3)),
        F32Mul(F32Add(F32Mul(F32FromInt(6), b), F32Mul(F32FromInt(30), c)), powi(a, 2))),
        F32Mul(F32Sub(F32Mul(F32FromInt(-12), b), F32Mul(F32FromInt(48), c)), a)),
        F32Add(F32Mul(F32FromInt(8), b), F32Mul(F32FromInt(24), c)))

CubicAbs(b, c, a) ==
    F32Div(IF F32Lt(a, F32One) THEN CubicNear(b, c, a)
           ELSE IF F32Lt(a, F32FromInt(2)) THEN CubicFar(b, c, a)
           ELSE F32Zero,
           F32FromInt(6))

cubic_bc(b, c, x) == CubicAbs(b, c, F32Abs(x))

\* The built-in resizing types.  Lanczos3 calls sinf, whose value is not
\* modelled: its weights stay symbolic (see Weights).
Types == {"Point", "Triangle", "Catrom", "Mitchell", "Lanczos3"}

F32Third == F32Div(F32One, F32FromInt(3))

\* Resizer::new's match on the type: the filter's kernel and support.
Filter(filter_type) ==
    CASE filter_type = "Point"    -> [kernel |-> "point", b |-> F32Zero, c |-> F32Zero,
                                      support |-> F32Zero]
      [] filter_type = "Triangle" -> [kernel |-> "triangle", b |-> F32Zero, c |-> F32Zero,
                                      support |-> F32One]
      [] filter_type = "Catrom"   -> [kernel |-> "cubic", b |-> F32Zero, c |-> F32Half,
                                      support |-> <<8388608, -22>>]
      [] filter_type = "Mitchell" -> [kernel |-> "cubic", b |-> F32Third, c |-> F32Third,
                                      support |-> <<8388608, -22>>]
      [] filter_type = "Lanczos3" -> [kernel |-> "lanczos", b |-> F32Zero, c |-> F32Zero,
                                      support |-> <<12582912, -22>>]

\* (f.kernel)(x) for the kernels whose arithmetic is modelled.
Kernel(f, x) ==
    CASE f.kernel = "point"    -> point_kernel(x)
      [] f.kernel = "triangle" -> triangle_kernel(x)
      [] f.kernel = "cubic"    -> cubic_bc(f.b, f.c, x)

(***************************************************************************)
(* Resizer::calc_coeffs and Resizer::clamp.                                 *)
(***************************************************************************)
clamp(input, min, max) ==
    IF input > max THEN max ELSE IF input < min THEN min ELSE input

\* s1 as f32 / s2 as f32, for s2 # 0.
Ratio(s1, s2) == F32Div(F32FromInt(s1), F32FromInt(s2))

\* ratio.max(1.)
FilterScale(s1, s2) == F32Max(Ratio(s1, s2), F32One)

\* (f.support * filter_scale).ceil()
FilterRadius(f, s1, s2) == F32FromInt(F32Ceil(F32Mul(f.support, FilterScale(s1, s2))))

\* Centre with sample edges aligned instead of sample centres: the final
\* - 0.5 is missing.
CentreEdge(x2, ratio) == F32Mul(F32Add(F32FromInt(x2), F32Half), ratio)

\* (x2 as f32 + 0.5) * ratio - 0.5
Centre(x2, ratio) == F32Sub(F32Mul(F32Add(F32FromInt(x2), F32Half), ratio), F32Half)

\* The clamped bounds around the centre x1c.  The casts `as usize` keep the
\* representative: -1 is usize::MAX.
WindowAt(s1, x1c, radius) ==
    [x1    |-> x1c,
     start |-> clamp(F32Ceil(F32Sub(x1c, radius)), 0, s1 - 1),
     end   |-> clamp(F32Floor(F32Add(x1c, radius)), 0, s1 - 1)]

\* The sampling centre and the bounds of destination coordinate x2.
Window(s1, s2, f, x2) ==
    WindowAt(s1, Centre(x2, Ratio(s1, s2)), FilterRadius(f, s1, s2))

\* (start..=end).map(|i| (i as f32 - x1) / filter_scale): the kernel's arguments.
KernelArgs(w, filter_scale) ==
    IF UsizeLe(w.start, w.end)
    THEN [k \in 1..(w.end - w.start + 1) |->
            F32Div(F32Sub(F32FromInt(w.start + k - 1), w.x1), filter_scale)]
    ELSE <<>>

\* Iterator::sum over f32: a left fold from 0.0.
RECURSIVE SumF32(_, _)
SumF32(vs, n) == IF n = 0 THEN F32Zero ELSE F32Add(SumF32(vs, n - 1), vs[n])

\* v / sum for every tap.  A Lanczos3 weight is kept as the term
\* <<"lanczos", x, xs>>: lanczos(3, x) over the sum of lanczos(3, .) on xs.
Normalised(f, args, sum) ==
    [k \in 1..Len(args) |->
        IF f.kernel = "lanczos" THEN <<"lanczos", args[k], args>>
        ELSE F32Div(Kernel(f, args[k]), sum)]

KernelValues(f, args) ==
    [k \in 1..Len(args) |-> IF f.kernel = "lanczos" THEN F32Zero ELSE Kernel(f, args[k])]

\* The normalised weights of one window from its kernel arguments.
Weights(f, args) == Normalised(f, args, SumF32(KernelValues(f, args), Len(args)))

\* CacheKey without the offset of the centre in the window.
CacheKeyNoOffset(w, filter_scale) == <<w.end - w.start, filter_scale, F32Zero>>

\* The key of the recycling cache: (end - start, filter_scale bits,
\* (x1 - start as f32) bits).  end - start is the wrapped difference.
CacheKey(w, filter_scale) ==
    <<w.end - w.start, filter_scale, F32Sub(w.x1, UsizeToF32(w.start))>>

\* recycled_coeffs.entry(key).or_insert_with(..).clone()
Recycled(cache, key, f, w, filter_scale) ==
    IF key \in DOMAIN cache THEN cache[key] ELSE Weights(f, KernelArgs(w, filter_scale))

\* The loop of calc_coeffs from coordinate x2 on.  status is "ok", "overflow"
\* (end - start underflows and the build checks overflow: a panic) or
\* "diverges" (start..=end spans about 2^64 indices, which the sum walks).
RECURSIVE CoeffsFrom(_, _, _, _, _, _, _)

CoeffsPush(s1, s2, f, build, x2, lines, cache, w, key, coeffs) ==
    CoeffsFrom(s1, s2, f, build, x2 + 1,
               Append(lines, [start |-> w.start, coeffs |-> coeffs]),
               (key :> coeffs) @@ cache)

CoeffsKeyed(s1, s2, f, build, x2, lines, cache, w, fs, key) ==
    CoeffsPush(s1, s2, f, build, x2, lines, cache, w, key,
               Recycled(cache, key, f, w, fs))

CoeffsBounded(s1, s2, f, build, x2, lines, cache, w, fs) ==
    IF UsizeLe(w.start, w.end) /\ w.end < 0
    THEN [status |-> "diverges", lines |-> lines, cache |-> cache]
    ELSE IF ~UsizeLe(w.start, w.end) /\ build = "debug"
    THEN [status |-> "overflow", lines |-> lines, cache |-> cache]
    ELSE CoeffsKeyed(s1, s2, f, build, x2, lines, cache, w, fs, CacheKey(w, fs))

CoeffsFrom(s1, s2, f, build, x2, lines, cache) ==
    IF x2 = s2 THEN [status |-> "ok", lines |-> lines, cache |-> cache]
    ELSE CoeffsBounded(s1, s2, f, build, x2, lines, cache,
                    Window(s1, s2, f, x2), FilterScale(s1, s2))

\* calc_coeffs(s1, s2, f, recycled_coeffs) under a build with ("debug") or
\* without ("release") overflow checks.  With s2 = 0 the ratio is not finite
\* and never used: the map over 0..s2 is empty.
calc_coeffs(s1, s2, f, build, recycled_coeffs) ==
    IF s2 = 0 THEN [status |-> "ok", lines |-> <<>>, cache |-> recycled_coeffs]
    ELSE CoeffsFrom(s1, s2, f, build, 0, <<>>, recycled_coeffs)

\* HashMap::new()
EmptyCache == [k \in {} |-> <<>>]

(***************************************************************************)
(* Resizer::new.  The filter is dropped when new returns; the engine keeps  *)
(* its type here only so that properties can name it.                       *)
(***************************************************************************)
NewEngine(source_width, source_heigth, dest_width, dest_height, filter_type, cw, ch) ==
    [status      |-> ch.status,
     w1          |-> source_width,
     h1          |-> source_heigth,
     w2          |-> dest_width,
     h2          |-> dest_height,
     filter_type |-> filter_type,
     coeffs_w    |-> cw.lines,
     coeffs_h    |-> ch.lines]

\* coeffs_h: a clone of coeffs_w for equal axes, else a second calc_coeffs on
\* the same recycled_coeffs (not reached when the first one did not return).
NewHeight(source_width, source_heigth, dest_width, dest_height, filter_type, build, cw) ==
    NewEngine(source_width, source_heigth, dest_width, dest_height, filter_type, cw,
              IF cw.status # "ok" THEN cw
              ELSE IF source_heigth = source_width /\ dest_height = dest_width THEN cw
              ELSE calc_coeffs(source_heigth, dest_height, Filter(filter_type), build,
                               cw.cache))

new(source_width, source_heigth, dest_width, dest_height, filter_type, build) ==
    NewHeight(source_width, source_heigth, dest_width, dest_height, filter_type, build,
              calc_coeffs(source_width, dest_width, Filter(filter_type), build,
                          EmptyCache))

(***************************************************************************)
(* The pixel format (mod px, Pixel::Gray16): one f32 accumulator lane and   *)
(* u16 pixels.                                                              *)
(***************************************************************************)
FormatNew == F32Zero

\* acc += inp as f32 * coeff
add(acc, inp, coeff) == F32Add(acc, F32Mul(F32FromInt(inp), coeff))

\* acc += inp * coeff, on an accumulator of the first pass
add_acc(acc, inp, coeff) == F32Add(acc, F32Mul(inp, coeff))

\* a > 0 below 2^16 rounded to the nearest integer, halves away from zero.
F32RoundInt(a) ==
    IF a[2] < -24 THEN 0
    ELSE (a[1] \div 2^(-a[2])) + (IF 2 * (a[1] % 2^(-a[2])) >= 2^(-a[2]) THEN 1 ELSE 0)

\* round and clamp to the u16 range
into_pixel(acc) ==
    IF acc[1] <= 0 THEN 0
    ELSE IF acc[2] > -8 THEN 65535
    ELSE clamp(F32RoundInt(acc), 0, 65535)

(***************************************************************************)
(* The engine as a state machine.                                           *)
(*   pc      where the engine is: "start" (not constructed), "configured",  *)
(*           "rows" / "cols" (inside sample_rows / sample_cols), "done"     *)
(*           (resize_internal has returned, the caller still holds dst),    *)
(*           or a fatal end: "new_overflow", "new_diverges",                *)
(*           "assert_failed", "fault" (an index out of bounds)              *)
(*   self    the Resizer's fields but tmp                                    *)
(*   tmp     the scratch Vec of accumulators                                 *)
(*   src, stride, dst   the arguments of the call in flight                  *)
(*   x1, y2  the outer loop counters of sample_rows and sample_cols          *)
(*   offset  sample_cols's write position                                    *)
(*   writes  how often each element of dst was written in this call          *)
(*   last    the latest completed call on this engine: its src, stride, dst  *)
(***************************************************************************)
VARIABLES pc, self, tmp, src, stride, dst, x1, y2, offset, writes, last

vars == <<pc, self, tmp, src, stride, dst, x1, y2, offset, writes, last>>

\* Bounds of the model.
MaxSrc == 2
MaxDst == 2
MaxPad == 2
MaxExt == 4

\* new(2, 2, 3, 4, Pixel::Gray16, Type::Triangle) of the test resize_stride.
TestConfig == <<2, 2, 3, 4>>

Builds == {"debug", "release"}

\* The engines that go on to resize: the types whose weights are computed.
EngineTypes == Types \ {"Lanczos3"}

Configs ==
    ((0..MaxSrc) \X (0..MaxSrc) \X (0..MaxDst) \X (0..MaxDst)) \cup {TestConfig}

\* The engines whose construction alone is examined.
AxisConfigs == (0..MaxExt) \X (0..MaxExt) \X (0..MaxExt) \X (0..MaxExt)

NoEngine == [status |-> "none"]

Init ==
    /\ pc = "start"
    /\ self = NoEngine
    /\ tmp = <<>>
    /\ src = <<>>
    /\ stride = 0
    /\ dst = <<>>
    /\ x1 = 0
    /\ y2 = 0
    /\ offset = 0
    /\ writes = <<>>
    /\ last = <<>>

\* let mut r = new(...): the engine r, or the way the constructor ends.
Constructed(r) ==
    /\ pc = "start"
    /\ self' = r
    /\ pc' = CASE r.status = "ok"       -> "configured"
               [] r.status = "overflow" -> "new_overflow"
               [] r.status = "diverges" -> "new_diverges"
    /\ tmp' = <<>>
    /\ UNCHANGED <<src, stride, dst, x1, y2, offset, writes, last>>

New ==
    \E cfg \in Configs, t \in EngineTypes, b \in Builds :
        Constructed(new(cfg[1], cfg[2], cfg[3], cfg[4], t, b))

NewAxes ==
    \E cfg \in AxisConfigs, t \in Types, b \in Builds :
        Constructed(new(cfg[1], cfg[2], cfg[3], cfg[4], t, b))

(***************************************************************************)
(* The source buffers a caller passes.                                      *)
(***************************************************************************)
\* A bright image (every pixel 65535) whose row padding is numbered 1, 2, ...:
\* for width 2, stride 4 and 8 elements, the buffer of the test resize_stride.
BrightPadded(w, st, n) ==
    [k \in 1..n |->
        IF st = 0 \/ (k - 1) % st < w THEN 65535
        ELSE ((k - 1) \div st) * (st - w) + (((k - 1) % st) - w) + 1]

\* A ramp: every element differs from every other.
Ramp(n) == [k \in 1..n |-> 1000 + 3001 * (k - 1)]

SrcBuffers(w, st, n) == {BrightPadded(w, st, n), Ramp(n)}

\* Lengths around the one a precondition asks for.
Around(n) == {m \in {n - 1, n, n + 1} : m >= 0}

\* The lengths <<len(src), len(dst)>> of a call: those the preconditions ask
\* for (n and m), and each one off by one with the other as asked.
Lengths(n, m) ==
    {<<k, m>> : k \in Around(n)} \cup {<<n, k>> : k \in Around(m)}

\* The strides of a call on source width w: one too short, packed, and
\* padded by one and by MaxPad.
Strides(w) == {k \in {w - 1, w, w + 1, w + MaxPad} : k >= 0}

Zeros(n) == [k \in 1..n |-> 0]

(***************************************************************************)
(* Resizer::resize_internal: the three assertions, then tmp.clear() and     *)
(* tmp.reserve(); sample_rows and sample_cols follow as steps of their own. *)
(***************************************************************************)
\* PreconditionsHold without the assertion on the destination's length.
PreconditionsHoldNoDst(e, s, st, d) ==
    /\ e.w1 <= st
    /\ Len(s) >= st * e.h1

PreconditionsHold(e, s, st, d) ==
    /\ e.w1 <= st
    /\ Len(s) >= st * e.h1
    /\ Len(d) = e.w2 * e.h2

\* Cleared without the clear(): the earlier call's entries stay.
Kept(t) == t

\* self.tmp.clear(); self.tmp.reserve(..): no element is left.
Cleared(t) == SubSeq(t, 1, 0)

resize_internal(s, st, d) ==
    /\ pc = "configured"
    /\ src' = s
    /\ stride' = st
    /\ dst' = d
    /\ writes' = Zeros(Len(d))
    /\ x1' = 0
    /\ y2' = 0
    /\ offset' = 0
    /\ IF PreconditionsHold(self, s, st, d)
       THEN pc' = "rows" /\ tmp' = Cleared(tmp)
       ELSE pc' = "assert_failed" /\ tmp' = tmp
    /\ UNCHANGED <<self, last>>

\* Resizer::resize: the stride is the source width.
Resize ==
    /\ pc = "configured"
    /\ \E l \in Lengths(self.w1 * self.h1, self.w2 * self.h2) :
          \E s \in SrcBuffers(self.w1, self.w1, l[1]) :
              resize_internal(s, self.w1, Zeros(l[2]))

\* Resizer::resize_stride
ResizeStride ==
    /\ pc = "configured"
    /\ \E st \in Strides(self.w1) :
          \E l \in Lengths(st * self.h1, self.w2 * self.h2) :
              \E s \in SrcBuffers(self.w1, st, l[1]) :
                  resize_internal(s, st, Zeros(l[2]))

(***************************************************************************)
(* sample_rows.  One step is one turn of the outer loop: column x1 of the   *)
(* source, every destination row y in order, one push each.                 *)
(***************************************************************************)
\* The inner loop over line.coeffs from tap i on; at is the slice's start.
\* [ok |-> FALSE] is the panic of an index out of bounds.
RECURSIVE RowTaps(_, _, _, _, _, _)
RowTaps(line, s, st, at, i, accum) ==
    IF i = Len(line.coeffs) THEN [ok |-> TRUE, accum |-> accum]
    ELSE IF at + i * st >= Len(s) THEN [ok |-> FALSE, accum |-> accum]
    ELSE RowTaps(line, s, st, at, i + 1,
                 add(accum, s[at + i * st + 1], line.coeffs[i + 1]))

\* The slice &src[at..] and the accumulation over it.
RowSlice(line, s, st, at) ==
    IF at < 0 \/ at > Len(s) THEN [ok |-> FALSE, accum |-> FormatNew]
    ELSE RowTaps(line, s, st, at, 0, FormatNew)

\* RowAccum with the window's first row not scaled by the stride.
RowAccumUnscaled(line, s, st, column) == RowSlice(line, s, st, line.start + column)

\* &src[(line.start * stride + x1)..].  The product overflows for a start of
\* usize::MAX: a panic with overflow checks, and without them a wrapped index
\* beyond the slice, a panic as well.
RowAccum(line, s, st, column) == RowSlice(line, s, st, line.start * st + column)

RECURSIVE RowsFrom(_, _, _, _, _, _)

\* RowsPush with the accumulator put in front of the scratch buffer.
RowsPushFront(e, s, st, column, y, t, a) ==
    IF a.ok THEN RowsFrom(e, s, st, column, y + 1, <<a.accum>> \o t)
    ELSE [ok |-> FALSE, tmp |-> t]

RowsPush(e, s, st, column, y, t, a) ==
    IF a.ok THEN RowsFrom(e, s, st, column, y + 1, Append(t, a.accum))
    ELSE [ok |-> FALSE, tmp |-> t]

RowsFrom(e, s, st, column, y, t) ==
    IF y = e.h2 THEN [ok |-> TRUE, tmp |-> t]
    ELSE RowsPush(e, s, st, column, y, t, RowAccum(e.coeffs_h[y + 1], s, st, column))

RowsStep(r) ==
    /\ tmp' = r.tmp
    /\ pc' = IF r.ok THEN "rows" ELSE "fault"
    /\ x1' = IF r.ok THEN x1 + 1 ELSE x1

sample_rows ==
    /\ pc = "rows"
    /\ x1 < self.w1
    /\ RowsStep(RowsFrom(self, src, stride, x1, 0, tmp))
    /\ UNCHANGED <<self, src, stride, dst, y2, offset, writes, last>>

\* sample_rows returns and sample_cols takes &mut dst[0..h2 * w2].
rows_done ==
    /\ pc = "rows"
    /\ x1 = self.w1
    /\ pc' = IF Len(dst) >= self.h2 * self.w2 THEN "cols" ELSE "fault"
    /\ UNCHANGED <<self, tmp, src, stride, dst, x1, y2, offset, writes, last>>

(***************************************************************************)
(* sample_cols.  One step is one turn of the outer loop: destination row    *)
(* y2, every destination column in order, one write each.                   *)
(***************************************************************************)
RECURSIVE ColTaps(_, _, _, _, _, _)
ColTaps(line, t, h, y, i, accum) ==
    IF i = Len(line.coeffs) THEN [ok |-> TRUE, accum |-> accum]
    ELSE IF line.start + i < 0 \/ (line.start + i) * h + y >= Len(t)
    THEN [ok |-> FALSE, accum |-> accum]
    ELSE ColTaps(line, t, h, y, i + 1,
                 add_acc(accum, t[(line.start + i) * h + y + 1], line.coeffs[i + 1]))

RECURSIVE ColsFrom(_, _, _, _, _, _, _)

ColsWrite(e, t, y, x, off, d, wr, a) ==
    IF a.ok /\ off < Len(d)
    THEN ColsFrom(e, t, y, x + 1, off + 1,
                  [d EXCEPT ![off + 1] = into_pixel(a.accum)],
                  [wr EXCEPT ![off + 1] = @ + 1])
    ELSE [ok |-> FALSE, dst |-> d, offset |-> off, writes |-> wr]

ColsFrom(e, t, y, x, off, d, wr) ==
    IF x = e.w2 THEN [ok |-> TRUE, dst |-> d, offset |-> off, writes |-> wr]
    ELSE ColsWrite(e, t, y, x, off, d, wr,
                   ColTaps(e.coeffs_w[x + 1], t, e.h2, y, 0, FormatNew))

ColsStep(r) ==
    /\ dst' = r.dst
    /\ offset' = r.offset
    /\ writes' = r.writes
    /\ pc' = IF r.ok THEN "cols" ELSE "fault"
    /\ y2' = IF r.ok THEN y2 + 1 ELSE y2

sample_cols ==
    /\ pc = "cols"
    /\ y2 < self.h2
    /\ ColsStep(ColsFrom(self, tmp, y2, 0, offset, dst, writes))
    /\ UNCHANGED <<self, tmp, src, stride, x1, last>>

cols_done ==
    /\ pc = "cols"
    /\ y2 = self.h2
    /\ pc' = "done"
    /\ UNCHANGED <<self, tmp, src, stride, dst, x1, y2, offset, writes, last>>

\* The caller takes the result; the engine waits for the next call.
Return ==
    /\ pc = "done"
    /\ pc' = "configured"
    /\ last' = <<src, stride, dst>>
    /\ src' = <<>>
    /\ stride' = 0
    /\ dst' = <<>>
    /\ writes' = <<>>
    /\ x1' = 0
    /\ y2' = 0
    /\ offset' = 0
    /\ UNCHANGED <<self, tmp>>

\* A whole call that passes the assertions, run to its end on source s with
\* stride st: sample_rows from column x on, then sample_cols from row y on.
RECURSIVE AllRows(_, _, _, _, _)

NextRows(e, s, st, x, r) ==
    IF r.ok THEN AllRows(e, s, st, x + 1, r.tmp) ELSE r

AllRows(e, s, st, x, t) ==
    IF x = e.w1 THEN [ok |-> TRUE, tmp |-> t]
    ELSE NextRows(e, s, st, x, RowsFrom(e, s, st, x, 0, t))

RECURSIVE AllCols(_, _, _, _, _, _)

NextCols(e, t, y, r) ==
    IF r.ok THEN AllCols(e, t, y + 1, r.offset, r.dst, r.writes) ELSE r

AllCols(e, t, y, off, d, wr) ==
    IF y = e.h2 THEN [ok |-> TRUE, dst |-> d, offset |-> off, writes |-> wr]
    ELSE NextCols(e, t, y, ColsFrom(e, t, y, 0, off, d, wr))

Sampled(e, r) ==
    IF r.ok THEN AllCols(e, r.tmp, 0, 0, Zeros(e.w2 * e.h2), Zeros(e.w2 * e.h2))
    ELSE [ok |-> FALSE, dst |-> Zeros(e.w2 * e.h2), offset |-> 0,
          writes |-> Zeros(e.w2 * e.h2)]

Resized(e, s, st) == Sampled(e, AllRows(e, s, st, 0, Cleared(<<>>)))

Next ==
    \/ New
    \/ Resize
    \/ ResizeStride
    \/ sample_rows
    \/ rows_done
    \/ sample_cols
    \/ cols_done
    \/ Return

Spec == Init /\ [][Next]_vars

\* The constructor alone, on longer axes and every built-in type.
SpecNew == Init /\ [][NewAxes]_vars

(***************************************************************************)
(* Properties of the coefficient tables (checked under SpecNew).            *)
(***************************************************************************)
\* Every line of a table satisfies P(line, x2), x2 the line's coordinate.
EveryLine(lines, P(_, _)) == \A k \in 1..Len(lines) : P(lines[k], k - 1)

\* 0 <= start and start + len(weights) - 1 <= S1 - 1.  A negative
\* representative is a start of 2^64 - 1 or near it, beyond every extent.
InBoundsW(line, x2) ==
    line.start >= 0 /\ line.start + Len(line.coeffs) - 1 <= self.w1 - 1

InBoundsH(line, x2) ==
    line.start >= 0 /\ line.start + Len(line.coeffs) - 1 <= self.h1 - 1

\* C1: every WeightWindow that calc_coeffs returns, on either axis and for
\* every source extent, destination extent and kernel, has 0 <= start and
\* start + len(weights) - 1 <= S1 - 1.
C1WindowBounds ==
    pc = "configured" =>
        EveryLine(self.coeffs_w, InBoundsW) /\ EveryLine(self.coeffs_h, InBoundsH)

\* 1e-5 as an f32.
F32Tolerance == <<10995116, -40>>

SumsToOne(line, x2) ==
    F32Lt(F32Abs(F32Sub(SumF32(line.coeffs, Len(line.coeffs)), F32One)), F32Tolerance)

\* C2: the weights of every computed WeightWindow sum to 1 within 1e-5, for
\* every kernel (Point included) whose weights are computed numerically,
\* upscaling and downscaling.
C2Normalization ==
    pc = "configured" /\ self.filter_type # "Lanczos3" =>
        EveryLine(self.coeffs_w, SumsToOne) /\ EveryLine(self.coeffs_h, SumsToOne)

\* The weights computed for coordinate x2 with no cache.
Uncached(s1, s2, filter_type, x2) ==
    Weights(Filter(filter_type),
            KernelArgs(Window(s1, s2, Filter(filter_type), x2), FilterScale(s1, s2)))

UncachedW(line, x2) ==
    line.coeffs = Uncached(self.w1, self.w2, self.filter_type, x2)

UncachedH(line, x2) ==
    line.coeffs = Uncached(self.h1, self.h2, self.filter_type, x2)

\* C9: the weight sequence of every coordinate of either axis, taken from the
\* cache or inserted into it, is the sequence computed for that coordinate
\* with no cache, whichever coordinate or axis created the cache entry.
C9CacheTransparent ==
    pc = "configured" =>
        EveryLine(self.coeffs_w, UncachedW) /\ EveryLine(self.coeffs_h, UncachedH)

\* The key of height coordinate y2 is in the cache the width axis left.
HitsWidthEntry(e, y) ==
    CacheKey(Window(e.h1, e.h2, Filter(e.filter_type), y), FilterScale(e.h1, e.h2))
        \in DOMAIN calc_coeffs(e.w1, e.w2, Filter(e.filter_type), "release",
                               EmptyCache).cache

\* C9 witness: an engine whose height axis, of another source/destination
\* ratio than its width axis, took a weight sequence from an entry that the
\* width axis created.
C9CrossAxisHit ==
    /\ pc = "configured"
    /\ self.w2 >= 1
    /\ self.h2 >= 1
    /\ Ratio(self.w1, self.w2) # Ratio(self.h1, self.h2)
    /\ \E y \in 0..(self.h2 - 1) : HitsWidthEntry(self, y)

OrderedW(x2) ==
    UsizeLe(Window(self.w1, self.w2, Filter(self.filter_type), x2).start,
            Window(self.w1, self.w2, Filter(self.filter_type), x2).end)

OrderedH(y) ==
    UsizeLe(Window(self.h1, self.h2, Filter(self.filter_type), y).start,
            Window(self.h1, self.h2, Filter(self.filter_type), y).end)

HasTap(line, x2) == Len(line.coeffs) >= 1

\* C10: with S1 >= 1 and S2 >= 1 on both axes, for every built-in kernel and
\* every destination coordinate the clamped bounds satisfy start <= end: the
\* subtraction end - start never underflows and every window has a tap.
C10StartBeforeEnd ==
    (pc # "start" /\ self.w1 >= 1 /\ self.w2 >= 1 /\ self.h1 >= 1 /\ self.h2 >= 1) =>
        /\ pc # "new_overflow"
        /\ \A x2 \in 0..(self.w2 - 1) : OrderedW(x2)
        /\ \A y \in 0..(self.h2 - 1) : OrderedH(y)
        /\ pc = "configured" =>
               EveryLine(self.coeffs_w, HasTap) /\ EveryLine(self.coeffs_h, HasTap)

(***************************************************************************)
(* Properties of the resize calls (checked under Spec).                     *)
(***************************************************************************)
\* sum over j of wH[y2][j] * src[(startH[y2] + j) * stride + x1], the first j
\* terms, added in order from 0.0.
RECURSIVE ScratchSum(_, _, _, _, _)
ScratchSum(line, s, st, x, j) ==
    IF j = 0 THEN F32Zero
    ELSE F32Add(ScratchSum(line, s, st, x, j - 1),
                F32Mul(line.coeffs[j], F32FromInt(s[(line.start + j - 1) * st + x + 1])))

\* sum over i of wW[x2][i] * T[(startW[x2] + i) * dest_height + y2], likewise.
RECURSIVE DestSum(_, _, _, _, _)
DestSum(line, t, h, y, i) ==
    IF i = 0 THEN F32Zero
    ELSE F32Add(DestSum(line, t, h, y, i - 1),
                F32Mul(line.coeffs[i], t[(line.start + i - 1) * h + y + 1]))

\* Scratch entry k (from 1) is T[x * dest_height + y] with k - 1 = x * h2 + y.
ScratchEntry(k) ==
    tmp[k] = ScratchSum(self.coeffs_h[((k - 1) % self.h2) + 1], src, stride,
                        (k - 1) \div self.h2,
                        Len(self.coeffs_h[((k - 1) % self.h2) + 1].coeffs))

DestEntry(x, y) ==
    /\ dst[y * self.w2 + x + 1] =
           into_pixel(DestSum(self.coeffs_w[x + 1], tmp, self.h2, y,
                              Len(self.coeffs_w[x + 1].coeffs)))
    /\ writes[y * self.w2 + x + 1] = 1

\* C3: in a call whose preconditions hold, pass 1 fills the scratch buffer in
\* the order of the index x1 * dest_height + y2 with the height-axis sums,
\* and after the call every dest[y2 * dest_width + x2] is the finalized
\* width-axis sum over the scratch buffer, written exactly once.
C3TwoPass ==
    /\ pc = "rows" => Len(tmp) = x1 * self.h2
    /\ pc \in {"cols", "done"} => Len(tmp) = self.w1 * self.h2
    /\ pc \in {"rows", "cols", "done"} => \A k \in 1..Len(tmp) : ScratchEntry(k)
    /\ pc = "cols" =>
           \A k \in 1..Len(dst) : writes[k] = (IF k <= y2 * self.w2 THEN 1 ELSE 0)
    /\ pc = "done" =>
           \A y \in 0..(self.h2 - 1) : \A x \in 0..(self.w2 - 1) : DestEntry(x, y)

\* C3 witness: a completed call in which both passes blend several taps and
\* the destination is not uniform.
C3BlendedCall ==
    /\ pc = "done"
    /\ \E k \in 1..Len(self.coeffs_h) : Len(self.coeffs_h[k].coeffs) >= 2
    /\ \E k \in 1..Len(self.coeffs_w) : Len(self.coeffs_w[k].coeffs) >= 2
    /\ Len(dst) >= 2
    /\ dst[1] # dst[2]

\* C4: a call that violates one of the three preconditions ends in the
\* assertion failure, with the scratch buffer as it was and no element of
\* the destination written.
C4AssertFirst ==
    [][(/\ pc = "configured"
        /\ pc' # "configured"
        /\ \/ stride' < self.w1
           \/ Len(src') < stride' * self.h1
           \/ Len(dst') # self.w2 * self.h2)
       => (/\ pc' = "assert_failed"
           /\ tmp' = tmp
           /\ dst' = Zeros(Len(dst'))
           /\ \A k \in 1..Len(writes') : writes'[k] = 0)]_vars

\* C4 witness: an engine whose scratch buffer an earlier call has filled
\* refused a call for its destination length alone.
C4RefusedCall ==
    /\ pc = "assert_failed"
    /\ tmp # <<>>
    /\ stride >= self.w1
    /\ Len(src) >= stride * self.h1
    /\ Len(dst) # self.w2 * self.h2

\* C5: no call whose preconditions hold faults, on any engine: every index
\* into the source, the scratch buffer and the destination is in range.
C5NoFault == pc # "fault"

\* C6: whatever calls came before on the engine, a completed call leaves
\* exactly source_width * dest_height scratch entries and writes what a call
\* with its source and stride writes on an empty scratch buffer, and so what
\* the call before it wrote if that had the same source and stride.
C6Deterministic ==
    pc = "done" =>
        /\ Len(tmp) = self.w1 * self.h2
        /\ dst = Resized(self, src, stride).dst
        /\ (last # <<>> /\ src = last[1] /\ stride = last[2]) => dst = last[3]

\* C6 witness: a call has completed on the scratch buffer that a call with
\* another source left, on a non-uniform image.
C6ReusedEngine ==
    /\ pc = "done"
    /\ last # <<>>
    /\ src # last[1]
    /\ Len(src) = Len(last[1])
    /\ stride = last[2]
    /\ Len(tmp) >= 2
    /\ Len(dst) >= 2
    /\ dst[1] # dst[2]

\* The tightly packed image of a source with stride st: its w * h pixels.
Packed(s, w, st, h) ==
    [k \in 1..(w * h) |-> s[((k - 1) \div w) * st + ((k - 1) % w) + 1]]

\* The source of the test resize_stride.
TestSrc == <<65535, 65535, 1, 2, 65535, 65535, 3, 4>>

TestCall ==
    /\ <<self.w1, self.h1, self.w2, self.h2>> = TestConfig
    /\ self.filter_type = "Triangle"
    /\ src = TestSrc
    /\ stride = 4

\* C7: a completed call with any stride >= source_width writes what resize
\* writes on the tightly packed image, so no padding element influences the
\* destination; the call of the test resize_stride writes twelve 65535.
C7StrideHonoured ==
    pc = "done" =>
        /\ dst = Resized(self, Packed(src, self.w1, stride, self.h1), self.w1).dst
        /\ TestCall => dst = [k \in 1..12 |-> 65535]

\* C7 witness: the call of the test resize_stride has completed.
C7TestCallDone == pc = "done" /\ TestCall

IdentityLine(line, x2) == line.start = x2 /\ line.coeffs = <<F32One>>

\* C8: an engine with equal source and destination extents on both axes and
\* the Point kernel is constructed with start = x2, one tap and weight 1.0
\* for every coordinate, and its completed calls copy the source image.
C8Identity ==
    (/\ pc # "start"
     /\ self.filter_type = "Point"
     /\ self.w1 = self.w2
     /\ self.h1 = self.h2) =>
        /\ pc \notin {"new_overflow", "new_diverges", "fault"}
        /\ EveryLine(self.coeffs_w, IdentityLine)
        /\ EveryLine(self.coeffs_h, IdentityLine)
        /\ Len(self.coeffs_w) = self.w2
        /\ Len(self.coeffs_h) = self.h2
        /\ pc = "done" => dst = Packed(src, self.w1, stride, self.h1)

\* C8 witness: an identity engine has copied a non-uniform image with row
\* padding.
C8IdentityCopy ==
    /\ pc = "done"
    /\ self.filter_type = "Point"
    /\ self.w1 = self.w2
    /\ self.h1 = self.h2
    /\ self.w1 >= 2
    /\ self.h1 >= 2
    /\ stride > self.w1
    /\ src = Ramp(Len(src))

====
